---- MODULE Spec2Model ----
(***************************************************************************)
(* Model of sciter/scplatform.py: the per-OS native window variants        *)
(* (WindowsWindow, OsxWindow, LinuxWindow) and the ObjC string marshaling. *)
(* The native layer (user32, AppKit, CoreFoundation, the Sciter engine) is *)
(* modelled as a fake that records the requests it receives.               *)
(***************************************************************************)
EXTENDS Integers, Sequences, FiniteSets, TLC

\* ------------------------------------------------------------------ bounds
MaxTitleLen == 2

\* Representative code points: 'a' (1 UTF-8 byte), U+00E9 (2 bytes),
\* U+20AC (3 bytes), U+1F600 (4 bytes, a surrogate pair in UTF-16).
CodePoints == {97, 233, 8364, 128512}

RECURSIVE SeqsUpTo(_, _)
SeqsUpTo(S, n) ==
    IF n = 0 THEN {<<>>}
    ELSE LET shorter == SeqsUpTo(S, n - 1)
         IN  shorter \cup {Append(s, c) : s \in {t \in shorter : Len(t) = n - 1}, c \in S}

Titles == SeqsUpTo(CodePoints, MaxTitleLen)

\* ------------------------------------------------------- text conversions
\* str.encode('utf8') of one code point
Utf8OfCp(cp) ==
    IF cp < 128 THEN <<cp>>
    ELSE IF cp < 2048 THEN <<192 + (cp \div 64), 128 + (cp % 64)>>
    ELSE IF cp < 65536 THEN
        <<224 + (cp \div 4096), 128 + ((cp \div 64) % 64), 128 + (cp % 64)>>
    ELSE <<240 + (cp \div 262144), 128 + ((cp \div 4096) % 64),
           128 + ((cp \div 64) % 64), 128 + (cp % 64)>>

RECURSIVE Utf8Encode(_)
Utf8Encode(s) == IF s = <<>> THEN <<>> ELSE Utf8OfCp(Head(s)) \o Utf8Encode(Tail(s))

\* number of bytes announced by a UTF-8 lead byte
Utf8SeqLen(b) == IF b < 128 THEN 1 ELSE IF b < 224 THEN 2 ELSE IF b < 240 THEN 3 ELSE 4

Utf8CpAt(b) ==
    LET k == Utf8SeqLen(b[1])
    IN  IF k = 1 THEN b[1]
        ELSE IF k = 2 THEN (b[1] - 192) * 64 + (b[2] - 128)
        ELSE IF k = 3 THEN (b[1] - 224) * 4096 + (b[2] - 128) * 64 + (b[3] - 128)
        ELSE (b[1] - 240) * 262144 + (b[2] - 128) * 4096 + (b[3] - 128) * 64 + (b[4] - 128)

\* bytes.decode('utf-8')
RECURSIVE Utf8Decode(_)
Utf8Decode(b) ==
    IF b = <<>> THEN <<>>
    ELSE <<Utf8CpAt(b)>> \o Utf8Decode(SubSeq(b, Utf8SeqLen(b[1]) + 1, Len(b)))

\* UTF-16 code units of one code point (the native string storage)
Utf16OfCp(cp) ==
    IF cp < 65536 THEN <<cp>>
    ELSE <<55296 + ((cp - 65536) \div 1024), 56320 + ((cp - 65536) % 1024)>>

RECURSIVE Utf16Encode(_)
Utf16Encode(s) == IF s = <<>> THEN <<>> ELSE Utf16OfCp(Head(s)) \o Utf16Encode(Tail(s))

IsHighSurrogate(u) == u >= 55296 /\ u < 56320

RECURSIVE Utf16Decode(_)
Utf16Decode(u) ==
    IF u = <<>> THEN <<>>
    ELSE IF IsHighSurrogate(u[1]) /\ Len(u) >= 2
         THEN <<65536 + (u[1] - 55296) * 1024 + (u[2] - 56320)>>
              \o Utf16Decode(SubSeq(u, 3, Len(u)))
         ELSE <<u[1]>> \o Utf16Decode(Tail(u))

\* ctypes buffer .value: the bytes before the first NUL
RECURSIVE CStr(_)
CStr(b) == IF b = <<>> \/ Head(b) = 0 THEN <<>> ELSE <<Head(b)>> \o CStr(Tail(b))

\* values a title getter can return
Text(s) == [kind |-> "str", val |-> s]
UnicodeBuffer(u) == [kind |-> "unicode_buffer", val |-> u]
None == [kind |-> "none", val |-> <<>>]

\* ------------------------------------------------------------- variables
VARIABLES
    os,            \* SCITER_OS: which variant BaseWindow is bound to
    nativeTitle,   \* title text held by the OS window, as UTF-16 code units
    lastSet,       \* argument of the latest set_title, None before the first
    lastGot,       \* value returned by get_title since the latest set_title
    rd,            \* the latest native read made by fromNSString
    pc,            \* position of run_app: "idle", "running", "done", "exited"
    posted,        \* the pending quit request: [set, code]
    quitArg,       \* argument of the latest quit_app call, -1 before the first
    msg,           \* the MSG record of run_app (its wParam)
    history,       \* retrievals of the loop so far: [ret, dispatched]
    result,        \* value returned by run_app, -1 until it returns
    installed,     \* engine side: the existing windows, [hwnd, delegate]
    msg_delegate,  \* self._msg_delegate: the callback the instance holds, 0 = none
    ncreate,       \* number of _create calls so far (names the callbacks)
    hwnd,          \* self.hwnd, -1 while the attribute is unset
    window_flags,  \* self.window_flags
    lastOp,        \* the latest operation: its name, arguments and result
    log,           \* native requests issued by the latest operation, in order
    dl,            \* the latest delivery of a window message to a delegate
    attrErr        \* name of the latest operation the variant does not define

titleVars == <<nativeTitle, lastSet, lastGot, rd>>
loopVars == <<pc, posted, quitArg, msg, history, result>>
winVars == <<installed, msg_delegate, ncreate, hwnd, window_flags, lastOp, log, dl, attrErr>>
vars == <<os, nativeTitle, lastSet, lastGot, rd, pc, posted, quitArg, msg, history, result,
          installed, msg_delegate, ncreate, hwnd, window_flags, lastOp, log, dl, attrErr>>

Pending == [kind |-> "pending", val |-> <<>>]
NoRead == [n |-> 0, allocated |-> 0, capacity |-> 0, needed |-> 0, ok |-> FALSE, done |-> FALSE]

\* ------------------------------------------------ CoreFoundation (fake)
\* CFStringCreateWithCString(NULL, cStr, kCFStringEncodingUTF8)
CFStringCreateWithCString(cstr) ==
    [null |-> FALSE, units |-> Utf16Encode(Utf8Decode(CStr(cstr)))]

CFStringGetLength(ns) == Len(ns.units)

\* bytes the UTF-8 C string of ns occupies, terminator included
CFStringBytesNeeded(ns) == Len(Utf8Encode(Utf16Decode(ns.units))) + 1

\* CFStringGetCString(ns, buf, bufferSize, kCFStringEncodingUTF8): fills buf
\* and reports true iff the text and its terminator fit bufferSize
CFStringGetCString(ns, bufferSize) ==
    LET ok == CFStringBytesNeeded(ns) <= bufferSize
    IN  [ok |-> ok,
         buf |-> IF ok THEN Utf8Encode(Utf16Decode(ns.units)) \o <<0>> ELSE <<0>>]

\* ------------------------------------------------------------ class ObjC
\* create_string_buffer(n * 4 + 4)
BufferAllocated(n) == n * 4 + 4
\* the size handed to CFStringGetCString
BufferCapacity(n) == n * 4

NilText == <<60, 110, 105, 108, 62>>   \* '<nil>'

fromNSString(ns) ==
    IF ns.null THEN Text(NilText)
    ELSE LET n == CFStringGetLength(ns)
             r == CFStringGetCString(ns, BufferCapacity(n))
         IN  IF r.ok THEN Text(Utf8Decode(CStr(r.buf))) ELSE None

toNSString(string) == CFStringCreateWithCString(Utf8Encode(string) \o <<0>>)

ReadOf(ns) ==
    [n |-> CFStringGetLength(ns),
     allocated |-> BufferAllocated(CFStringGetLength(ns)),
     capacity |-> BufferCapacity(CFStringGetLength(ns)),
     needed |-> CFStringBytesNeeded(ns),
     ok |-> CFStringGetCString(ns, BufferCapacity(CFStringGetLength(ns))).ok,
     done |-> TRUE]

\* --------------------------------------------------------- title actions
WindowsWindow_set_title(title) ==
    /\ os = "win32"
    /\ nativeTitle' = Utf16Encode(title)       \* SetWindowTextW
    /\ lastSet' = Text(title)
    /\ lastGot' = Pending
    /\ UNCHANGED <<os, rd, loopVars, winVars>>

WindowsWindow_get_title ==
    /\ os = "win32"
    /\ LET cb == Len(nativeTitle) + 1          \* GetWindowTextLengthW + 1
           copied == SubSeq(nativeTitle, 1, cb - 1)
       IN  lastGot' = UnicodeBuffer(copied \o <<0>>)
    /\ UNCHANGED <<os, nativeTitle, lastSet, rd, loopVars, winVars>>

OsxWindow_set_title(title) ==
    /\ os = "darwin"
    /\ nativeTitle' = toNSString(title).units  \* setTitle:
    /\ lastSet' = Text(title)
    /\ lastGot' = Pending
    /\ UNCHANGED <<os, rd, loopVars, winVars>>

OsxWindow_get_title ==
    /\ os = "darwin"
    /\ LET nstitle == [null |-> FALSE, units |-> nativeTitle]
       IN  /\ lastGot' = fromNSString(nstitle)
           /\ rd' = ReadOf(nstitle)
    /\ UNCHANGED <<os, nativeTitle, lastSet, loopVars, winVars>>

TitleIdle ==
    /\ nativeTitle = <<>>
    /\ lastSet = None
    /\ lastGot = Pending
    /\ rd = NoRead

LoopIdle ==
    /\ pc = "idle"
    /\ posted = [set |-> FALSE, code |-> 0]
    /\ quitArg = -1
    /\ msg = 0
    /\ history = <<>>
    /\ result = -1

NoOp == [name |-> "none"]
NoDelivery ==
    [via |-> "none", absent |-> TRUE, rv |-> 0, before |-> 0, raised |-> FALSE,
     after |-> 0, ret |-> 0]

WinIdle ==
    /\ installed = {}
    /\ msg_delegate = 0
    /\ ncreate = 0
    /\ hwnd = -1
    /\ window_flags = {}
    /\ lastOp = NoOp
    /\ log = <<>>
    /\ dl = NoDelivery
    /\ attrErr = "none"

InitTitle ==
    /\ os \in {"win32", "darwin"}
    /\ TitleIdle
    /\ LoopIdle
    /\ WinIdle

NextTitle ==
    \/ \E t \in Titles : WindowsWindow_set_title(t)
    \/ WindowsWindow_get_title
    \/ \E t \in Titles : OsxWindow_set_title(t)
    \/ OsxWindow_get_title

SpecTitle == InitTitle /\ [][NextTitle]_vars

\* ------------------------------------------------------ message loop
MaxMsgs == 3
ExitCodes == 0 .. 2
WParams == 1 .. 2

LoopContinues_OnSuccessOnly(ret) == ret > 0

\* `while GetMessageW(pmsg, 0, 0, 0) != 0`
LoopContinues(ret) == ret # 0

\* the exit code quit_app(code) hands to PostQuitMessage
PostedExitCode(code) == 0

\* the value OsxWindow.run_app returns once `run` has returned
OsxRunResult(code) == 0

WindowsWindow_quit_app(code) ==
    /\ os = "win32"
    /\ pc \in {"idle", "running"}
    /\ posted' = [set |-> TRUE, code |-> PostedExitCode(code)]   \* PostQuitMessage
    /\ quitArg' = code
    /\ UNCHANGED <<os, titleVars, winVars, pc, msg, history, result>>

WindowsWindow_run_app ==
    /\ os = "win32"
    /\ pc = "idle"
    /\ pc' = "running"
    /\ msg' = 0                                 \* msg = MSG()
    /\ UNCHANGED <<os, titleVars, winVars, posted, quitArg, history, result>>

\* one evaluation of the loop condition and, when it holds, of the loop body;
\* ret and m are what GetMessageW reports: 0 with the quit message, -1 with
\* an error (pmsg untouched), nonzero with an ordinary message
WindowsWindow_run_app_iter(ret, m) ==
    /\ os = "win32"
    /\ pc = "running"
    /\ ret = 0 => posted.set
    /\ ret # 0 => Len(history) < MaxMsgs
    /\ LET got == IF ret = 0 THEN posted.code ELSE IF ret = -1 THEN msg ELSE m
       IN  /\ msg' = got
           /\ IF LoopContinues(ret)
              THEN /\ history' = Append(history, [ret |-> ret, dispatched |-> TRUE])
                   /\ UNCHANGED <<pc, result>>
              ELSE /\ history' = Append(history, [ret |-> ret, dispatched |-> FALSE])
                   /\ pc' = "done"
                   /\ result' = got             \* int(msg.wParam)
    /\ posted' = IF ret = 0 THEN [set |-> FALSE, code |-> 0] ELSE posted
    /\ UNCHANGED <<os, titleVars, winVars, quitArg>>

OsxWindow_quit_app(code) ==
    /\ os = "darwin"
    /\ pc \in {"idle", "running"}
    /\ posted' = [set |-> TRUE, code |-> 0]      \* terminate: carries no code
    /\ quitArg' = code
    /\ UNCHANGED <<os, titleVars, winVars, pc, msg, history, result>>

OsxWindow_run_app ==
    /\ os = "darwin"
    /\ pc = "idle"
    /\ pc' = "running"
    /\ UNCHANGED <<os, titleVars, winVars, posted, quitArg, msg, history, result>>

\* [NSApp run] handles one event
OsxWindow_run_app_event ==
    /\ os = "darwin"
    /\ pc = "running"
    /\ Len(history) < MaxMsgs
    /\ history' = Append(history, [ret |-> 1, dispatched |-> TRUE])
    /\ UNCHANGED <<os, titleVars, winVars, pc, posted, quitArg, msg, result>>

\* [NSApp run] observes the terminate request: the native loop either stops,
\* and run_app returns, or AppKit ends the process from inside `run`
OsxWindow_run_app_quit(exits) ==
    /\ os = "darwin"
    /\ pc = "running"
    /\ posted.set
    /\ posted' = [set |-> FALSE, code |-> 0]
    /\ history' = Append(history, [ret |-> 0, dispatched |-> FALSE])
    /\ IF exits
       THEN pc' = "exited" /\ UNCHANGED result
       ELSE pc' = "done" /\ result' = OsxRunResult(quitArg)
    /\ UNCHANGED <<os, titleVars, winVars, quitArg, msg>>

InitLoop ==
    /\ os \in {"win32", "darwin"}
    /\ TitleIdle
    /\ LoopIdle
    /\ WinIdle

NextLoop ==
    \/ \E c \in ExitCodes : WindowsWindow_quit_app(c)
    \/ WindowsWindow_run_app
    \/ \E ret \in {-1, 0, 1}, m \in WParams : WindowsWindow_run_app_iter(ret, m)
    \/ \E c \in ExitCodes : OsxWindow_quit_app(c)
    \/ OsxWindow_run_app
    \/ OsxWindow_run_app_event
    \/ \E exits \in BOOLEAN : OsxWindow_run_app_quit(exits)

SpecLoop == InitLoop /\ [][NextLoop]_vars

\* ------------------------------------------------------ window variants
MaxWindows == 2
MaxCreates == 3

Handles == 1 .. MaxWindows
FlagSets == SUBSET {"SW_TITLEBAR", "SW_RESIZEABLE"}
AbsentRect == [absent |-> TRUE, ltrb |-> <<0, 0, 0, 0>>]
ZeroRect == [absent |-> FALSE, ltrb |-> <<0, 0, 0, 0>>]     \* sciter.sctypes.RECT()
Rects == {AbsentRect, ZeroRect, [absent |-> FALSE, ltrb |-> <<10, 20, 110, 220>>]}
Returns == {[absent |-> TRUE, rv |-> 0]} \cup {[absent |-> FALSE, rv |-> v] : v \in {0, 5}}

Existing == {w.hwnd : w \in installed}

\* methods each class defines
Methods(o) ==
    IF o = "win32" THEN {"_create", "collapse", "expand", "dismiss", "set_title", "get_title",
                         "run_app", "quit_app", "on_message", "_on_msg_delegate"}
    ELSE IF o = "darwin" THEN {"__init__", "_create", "_window", "collapse", "expand", "dismiss",
                               "set_title", "get_title", "run_app", "quit_app"}
    ELSE {}

Capabilities == {"_create", "collapse", "expand", "dismiss", "set_title", "get_title",
                 "run_app", "quit_app"}

WindowsRectArg_NoDefault(rect) == rect

\* `if rect is None: rect = sciter.sctypes.RECT()`
WindowsRectArg(rect) == IF rect.absent THEN ZeroRect ELSE rect

\* `ctypes.byref(rect) if rect else None`
OsxRectArg(rect) == IF rect.absent THEN AbsentRect ELSE rect

\* the callback the instance holds once _create has built a new one
HeldAfterCreate(old, new) == new

\* SciterCreateWindow(flags, rect, delegate, None, parent)
CreateWindowCall(flags, rect, delegate, parent) ==
    [fn |-> "SciterCreateWindow", flags |-> flags, rect |-> rect,
     delegate |-> delegate, param |-> 0, parent |-> parent]

\* h is the handle the engine produces: 0 (null) or a handle not in use.
\* The owner stores the result in self.hwnd and the flags in self.window_flags.
WindowsWindow_create(flags, rect, parent, h) ==
    /\ os = "win32"
    /\ ncreate < MaxCreates
    /\ h \notin Existing
    /\ parent \in Existing \cup {0}
    /\ LET cb == ncreate + 1
       IN  /\ ncreate' = cb
           /\ msg_delegate' = HeldAfterCreate(msg_delegate, cb)
           /\ log' = <<CreateWindowCall(flags, WindowsRectArg(rect), cb, parent)>>
           /\ installed' = IF h = 0 THEN installed
                           ELSE installed \cup {[hwnd |-> h, delegate |-> cb]}
    /\ lastOp' = [name |-> "_create", flags |-> flags, rect |-> rect, parent |-> parent,
                  produced |-> h, ret |-> h]
    /\ hwnd' = h
    /\ window_flags' = flags
    /\ UNCHANGED <<os, titleVars, loopVars, dl, attrErr>>

OsxWindow_create(flags, rect, parent, h) ==
    /\ os = "darwin"
    /\ ncreate < MaxCreates
    /\ h \notin Existing
    /\ parent \in Existing \cup {0}
    /\ ncreate' = ncreate + 1
    /\ log' = <<CreateWindowCall(flags, OsxRectArg(rect), 0, parent)>>
    /\ installed' = IF h = 0 THEN installed
                    ELSE installed \cup {[hwnd |-> h, delegate |-> 0]}
    /\ lastOp' = [name |-> "_create", flags |-> flags, rect |-> rect, parent |-> parent,
                  produced |-> h, ret |-> h]
    /\ hwnd' = h
    /\ window_flags' = flags
    /\ UNCHANGED <<os, titleVars, loopVars, msg_delegate, dl, attrErr>>

\* the OS tears a window down; the instance is not told
DestroyWindow(h) ==
    /\ h \in Existing
    /\ installed' = {w \in installed : w.hwnd # h}
    /\ UNCHANGED <<os, titleVars, loopVars, msg_delegate, ncreate, hwnd, window_flags,
                   lastOp, log, dl, attrErr>>

\* ShowWindow(self.hwnd, 0 if hide else 6)
WindowsCollapseCalls(hide) ==
    <<[fn |-> "ShowWindow", obj |-> "hwnd", arg |-> IF hide THEN 0 ELSE 6]>>

WindowsExpandCalls_Swapped(maximize) ==
    <<[fn |-> "ShowWindow", obj |-> "hwnd", arg |-> IF maximize THEN 1 ELSE 3]>>

\* ShowWindow(self.hwnd, 3 if maximize else 1)
WindowsExpandCalls(maximize) ==
    <<[fn |-> "ShowWindow", obj |-> "hwnd", arg |-> IF maximize THEN 3 ELSE 1]>>

\* PostMessageW(self.hwnd, WM_CLOSE, 0, 0)
WindowsDismissCalls == <<[fn |-> "PostMessageW", obj |-> "hwnd", arg |-> 16]>>

\* self.objc(hwnd, 'window')
OsxWindowCall == [fn |-> "window", obj |-> "hwnd", arg |-> "none"]

OsxCollapseCalls(hide) ==
    <<OsxWindowCall,
      IF hide THEN [fn |-> "orderOut:", obj |-> "wnd", arg |-> "none"]
      ELSE [fn |-> "performMiniaturize:", obj |-> "wnd", arg |-> "hwnd"]>>

OsxExpandCalls_RaiseFirst(flags, maximize) ==
    <<OsxWindowCall>>
    \o <<[fn |-> "makeKeyAndOrderFront:", obj |-> "wnd", arg |-> "none"]>>
    \o (IF "SW_TITLEBAR" \in flags
        THEN <<[fn |-> "activateIgnoringOtherApps:", obj |-> "nsApp", arg |-> "true"]>>
        ELSE <<>>)
    \o (IF maximize THEN <<[fn |-> "performZoom:", obj |-> "wnd", arg |-> "none"]>> ELSE <<>>)

OsxExpandCalls(flags, maximize) ==
    <<OsxWindowCall>>
    \o (IF "SW_TITLEBAR" \in flags
        THEN <<[fn |-> "activateIgnoringOtherApps:", obj |-> "nsApp", arg |-> "true"]>>
        ELSE <<>>)
    \o <<[fn |-> "makeKeyAndOrderFront:", obj |-> "wnd", arg |-> "none"]>>
    \o (IF maximize THEN <<[fn |-> "performZoom:", obj |-> "wnd", arg |-> "none"]>> ELSE <<>>)

OsxDismissCalls == <<OsxWindowCall, [fn |-> "close", obj |-> "wnd", arg |-> "none"]>>

WindowsWindow_collapse(hide) ==
    /\ os = "win32"
    /\ hwnd # -1
    /\ log' = WindowsCollapseCalls(hide)
    /\ lastOp' = [name |-> "collapse", arg |-> hide, ret |-> "self"]
    /\ UNCHANGED <<os, titleVars, loopVars, installed, msg_delegate, ncreate, hwnd,
                   window_flags, dl, attrErr>>

WindowsWindow_expand(maximize) ==
    /\ os = "win32"
    /\ hwnd # -1
    /\ log' = WindowsExpandCalls(maximize)
    /\ lastOp' = [name |-> "expand", arg |-> maximize, ret |-> "self"]
    /\ UNCHANGED <<os, titleVars, loopVars, installed, msg_delegate, ncreate, hwnd,
                   window_flags, dl, attrErr>>

WindowsWindow_dismiss ==
    /\ os = "win32"
    /\ hwnd # -1
    /\ log' = WindowsDismissCalls
    /\ lastOp' = [name |-> "dismiss", arg |-> FALSE, ret |-> "self"]
    /\ UNCHANGED <<os, titleVars, loopVars, installed, msg_delegate, ncreate, hwnd,
                   window_flags, dl, attrErr>>

OsxWindow_collapse(hide) ==
    /\ os = "darwin"
    /\ hwnd # -1
    /\ log' = OsxCollapseCalls(hide)
    /\ lastOp' = [name |-> "collapse", arg |-> hide, ret |-> "self"]
    /\ UNCHANGED <<os, titleVars, loopVars, installed, msg_delegate, ncreate, hwnd,
                   window_flags, dl, attrErr>>

OsxWindow_expand(maximize) ==
    /\ os = "darwin"
    /\ hwnd # -1
    /\ log' = OsxExpandCalls(window_flags, maximize)
    /\ lastOp' = [name |-> "expand", arg |-> maximize, ret |-> "self"]
    /\ UNCHANGED <<os, titleVars, loopVars, installed, msg_delegate, ncreate, hwnd,
                   window_flags, dl, attrErr>>

OsxWindow_dismiss ==
    /\ os = "darwin"
    /\ hwnd # -1
    /\ log' = OsxDismissCalls
    /\ lastOp' = [name |-> "dismiss", arg |-> FALSE, ret |-> "self"]
    /\ UNCHANGED <<os, titleVars, loopVars, installed, msg_delegate, ncreate, hwnd,
                   window_flags, dl, attrErr>>

\* `phandled.contents = 1`: phandled arrives through the ctypes callback as a
\* pointer object, whose contents accepts only a ctypes instance, so the
\* assignment of the int 1 raises TypeError; a plain object accepts it.
\* The outcome is [raised, value the flag holds afterwards].
SetContents(ptr, before, value) ==
    IF ptr = "ctypes" THEN [raised |-> TRUE, handled |-> before]
    ELSE [raised |-> FALSE, handled |-> value]

PointerKinds == {"ctypes", "object"}

\* _on_msg_delegate: r is what on_message returned, before the value
\* phandled points at when the call starts, ptr the kind of object phandled
\* is, junk the value the native caller receives when the callback raised
on_msg_delegate(r, before, ptr, junk) ==
    IF ~r.absent
    THEN LET w == SetContents(ptr, before, 1)
         IN  IF w.raised THEN [raised |-> TRUE, handled |-> w.handled, ret |-> junk]
             ELSE [raised |-> FALSE, handled |-> w.handled, ret |-> r.rv]
    ELSE [raised |-> FALSE, handled |-> before, ret |-> 0]

\* the engine delivers a window message to the delegate of window h
WindowsWindow_on_msg_delegate(h, r, before, ptr, junk) ==
    /\ os = "win32"
    /\ \E w \in installed : w.hwnd = h /\ w.delegate = msg_delegate
    /\ LET out == on_msg_delegate(r, before, ptr, junk)
       IN  dl' = [via |-> "trampoline", absent |-> r.absent, rv |-> r.rv, before |-> before,
                  raised |-> out.raised, after |-> out.handled, ret |-> out.ret]
    /\ UNCHANGED <<os, titleVars, loopVars, installed, msg_delegate, ncreate, hwnd,
                   window_flags, lastOp, log, attrErr>>

\* the engine calls the delegate of a window whose callback object the
\* instance no longer holds: the call goes through freed memory, any outcome
DanglingDelegateCall(h, before, after, ret) ==
    /\ os = "win32"
    /\ \E w \in installed : w.hwnd = h /\ w.delegate # msg_delegate
    /\ dl' = [via |-> "dangling", absent |-> TRUE, rv |-> 0, before |-> before,
              raised |-> FALSE, after |-> after, ret |-> ret]
    /\ UNCHANGED <<os, titleVars, loopVars, installed, msg_delegate, ncreate, hwnd,
                   window_flags, lastOp, log, attrErr>>

\* a caller uses an operation the bound class does not define: AttributeError
UndefinedMethodCall(name) ==
    /\ name \notin Methods(os)
    /\ attrErr' = name
    /\ UNCHANGED <<os, titleVars, loopVars, installed, msg_delegate, ncreate, hwnd,
                   window_flags, lastOp, log, dl>>

InitWindow ==
    /\ os \in {"win32", "darwin", "linux"}
    /\ TitleIdle
    /\ LoopIdle
    /\ WinIdle

NextWindow ==
    \/ \E f \in FlagSets, r \in Rects, p \in Handles \cup {0}, h \in Handles \cup {0} :
           WindowsWindow_create(f, r, p, h)
    \/ \E f \in FlagSets, r \in Rects, p \in Handles \cup {0}, h \in Handles \cup {0} :
           OsxWindow_create(f, r, p, h)
    \/ \E h \in Handles : DestroyWindow(h)
    \/ \E b \in BOOLEAN : WindowsWindow_collapse(b)
    \/ \E b \in BOOLEAN : WindowsWindow_expand(b)
    \/ WindowsWindow_dismiss
    \/ \E b \in BOOLEAN : OsxWindow_collapse(b)
    \/ \E b \in BOOLEAN : OsxWindow_expand(b)
    \/ OsxWindow_dismiss
    \/ \E h \in Handles, r \in Returns, b \in 0 .. 1, k \in PointerKinds, v \in 0 .. 1 :
           WindowsWindow_on_msg_delegate(h, r, b, k, v)
    \/ \E h \in Handles, b \in 0 .. 1, a \in 0 .. 1, v \in 0 .. 1 :
           DanglingDelegateCall(h, b, a, v)
    \/ \E name \in Capabilities : UndefinedMethodCall(name)

SpecWindow == InitWindow /\ [][NextWindow]_vars

\* ------------------------------------------------------------ properties
IsShowRestore(c) == (c.fn = "ShowWindow" /\ c.arg = 1) \/ c.fn = "makeKeyAndOrderFront:"
IsMaximize(c) == (c.fn = "ShowWindow" /\ c.arg = 3) \/ c.fn = "performZoom:"
IsActivate(c) == c.fn = "activateIgnoringOtherApps:"
IsRaise(c) == c.fn = "makeKeyAndOrderFront:"

\* C1: a non-absent handler result V sets the handled flag and is returned;
\* an absent result leaves the handled flag false, whatever it was before the
\* call, and 0 is returned.
C1_Trampoline ==
    dl.via = "trampoline" =>
        IF dl.absent THEN dl.after = 0 /\ dl.ret = 0
        ELSE dl.after = 1 /\ dl.ret = dl.rv

\* C2: once run_app has returned after quit_app(c), its result is c.
C2_RunReturnsQuitCode == (pc = "done" /\ quitArg # -1) => result = quitArg

\* C3: get_title after set_title(X), with no title change in between,
\* returns a value equal to the text X.
C3_TitleRoundTrip == (lastSet # None /\ lastGot # Pending) => lastGot = lastSet

\* C4 as stated: _create hands flags, rect and parent unchanged to the engine
\* in a single call and returns the handle the call produced.
C4_ForwardsUnchanged ==
    lastOp.name = "_create" =>
        /\ Len(log) = 1
        /\ log[1].fn = "SciterCreateWindow"
        /\ log[1].flags = lastOp.flags
        /\ log[1].rect = lastOp.rect
        /\ log[1].parent = lastOp.parent
        /\ lastOp.ret = lastOp.produced

\* C4 amended: _create hands flags and parent unchanged to the engine in a
\* single call and returns the handle the call produced; a given rect is
\* handed over unchanged, an absent rect stays absent on macOS and is
\* replaced by the default (zero) rectangle on Windows.
C4_Forwards ==
    lastOp.name = "_create" =>
        /\ Len(log) = 1
        /\ log[1].fn = "SciterCreateWindow"
        /\ log[1].flags = lastOp.flags
        /\ log[1].rect = IF lastOp.rect.absent /\ os = "win32" THEN ZeroRect ELSE lastOp.rect
        /\ log[1].parent = lastOp.parent
        /\ lastOp.ret = lastOp.produced

C4_Witness ==
    /\ os = "win32"
    /\ lastOp.name = "_create"
    /\ lastOp.rect.absent
    /\ lastOp.parent # 0
    /\ lastOp.ret = 0

\* C5: on macOS, expand on a window with the title-bar flag issues the
\* activate-application request before the raise-window request; without the
\* flag expand issues no activate-application request.
C5_ActivateBeforeRaise ==
    (os = "darwin" /\ lastOp.name = "expand") =>
        IF "SW_TITLEBAR" \in window_flags
        THEN /\ \E i \in 1 .. Len(log) : IsActivate(log[i])
             /\ \E j \in 1 .. Len(log) : IsRaise(log[j])
             /\ \A i, j \in 1 .. Len(log) : (IsActivate(log[i]) /\ IsRaise(log[j])) => i < j
        ELSE \A i \in 1 .. Len(log) : ~IsActivate(log[i])

C5_Witness ==
    /\ os = "darwin"
    /\ lastOp.name = "expand"
    /\ "SW_TITLEBAR" \in window_flags
    /\ \E i, j \in 1 .. Len(log) : IsActivate(log[i]) /\ IsRaise(log[j]) /\ i < j

\* C6 as stated: on both variants expand(True) issues a show/restore request
\* followed by a maximize request, expand(False) a show/restore request and
\* no maximize request.
C6_RestoreThenMaximize ==
    lastOp.name = "expand" =>
        IF lastOp.arg
        THEN \E i, j \in 1 .. Len(log) : i < j /\ IsShowRestore(log[i]) /\ IsMaximize(log[j])
        ELSE /\ \E i \in 1 .. Len(log) : IsShowRestore(log[i])
             /\ \A j \in 1 .. Len(log) : ~IsMaximize(log[j])

\* C6 amended: on macOS expand(True) issues the raise request followed by the
\* zoom request and expand(False) the raise request and no zoom request; on
\* Windows expand issues exactly one ShowWindow request, SW_MAXIMIZE for
\* expand(True) with no separate show/restore request, SW_NORMAL for
\* expand(False).
C6_Expand ==
    lastOp.name = "expand" =>
        IF os = "win32"
        THEN /\ Len(log) = 1
             /\ IF lastOp.arg THEN IsMaximize(log[1]) ELSE IsShowRestore(log[1])
        ELSE IF lastOp.arg
        THEN \E i, j \in 1 .. Len(log) : i < j /\ IsShowRestore(log[i]) /\ IsMaximize(log[j])
        ELSE /\ \E i \in 1 .. Len(log) : IsShowRestore(log[i])
             /\ \A j \in 1 .. Len(log) : ~IsMaximize(log[j])

C6_Witness ==
    /\ os = "win32"
    /\ lastOp.name = "expand"
    /\ lastOp.arg
    /\ Len(log) = 1
    /\ IsMaximize(log[1])

\* C7: whichever variant is bound, no operation of the capability set a
\* caller issues is rejected as undefined.
C7_CapabilitiesAccepted == attrErr = "none"

\* C8: the Windows loop dispatches every retrieval that is not the quit
\* signal, errors included, never dispatches the quit signal, and run_app has
\* returned exactly when the quit signal has been retrieved.
C8_ReturnsOnlyOnQuit ==
    os = "win32" =>
        /\ \A i \in 1 .. Len(history) : history[i].dispatched <=> history[i].ret # 0
        /\ \A i \in 1 .. Len(history) : history[i].ret = 0 => i = Len(history)
        /\ pc = "done" <=> \E i \in 1 .. Len(history) : history[i].ret = 0
        /\ pc \in {"idle", "running", "done"}

C8_Witness ==
    /\ os = "win32"
    /\ pc = "done"
    /\ \E i \in 1 .. Len(history) : history[i].ret = -1 /\ history[i].dispatched
    /\ \E i \in 1 .. Len(history) : history[i].ret = 1

\* C9: on Windows every existing window created through the instance has
\* its own delegate callback still held by the instance.
C9_EveryCallbackHeld ==
    os = "win32" => \A w \in installed : w.delegate = msg_delegate

\* C10: every native read of fromNSString is given a capacity of at least
\* the text's UTF-8 length plus the terminator, so it succeeds and get_title
\* returns text, the empty title included.
C10_CapacitySuffices ==
    rd.done =>
        /\ rd.capacity = rd.n * 4
        /\ rd.allocated = rd.n * 4 + 4
        /\ rd.capacity >= rd.needed
        /\ rd.ok
        /\ lastGot.kind = "str"
====
